---- MODULE Spec2Model ----
(***************************************************************************)
(* A model of src/result.py: the label extractor (get_value_by_label), the *)
(* address parser (parse_japanese_address), the image collector            *)
(* (parse_images) and the pipeline parse_property that drives them.        *)
(*                                                                         *)
(* Text.  A Python str is modelled as a sequence of tokens.  A token       *)
(* stands for one character ("8", ".", "/", "sp" for a blank, "nl" for a   *)
(* line break, "ken" for U+770C, "shi" for U+5E02, "tilde" for the wave    *)
(* dash U+301C, "comma_ja" for the ideographic comma U+3001, "man" "en"    *)
(* for U+4E07 U+5186) or for an indivisible run of characters (a feature   *)
(* name such as "jp_balcony": the Japanese name that FEATURES_MAPPING maps *)
(* to "balcony"; a caption such as "L_size").  The tokens are ASCII names  *)
(* of the characters of the source.                                        *)
(*                                                                         *)
(* Values.  A Python value is a tagged tuple: None, Str(text), Num(n).     *)
(* A record (the dict `data`) is a function from key strings to values;    *)
(* its DOMAIN is the dict's key set.                                       *)
(***************************************************************************)
EXTENDS Integers, Sequences, FiniteSets, TLC

VARIABLES soup, data, pc, i, rent, arg, ret

vars == <<soup, data, pc, i, rent, arg, ret>>

-----------------------------------------------------------------------------
(* Python values *)

None == <<"None">>

Str(t) == <<"str", t>>

Num(n) == <<"float", n>>

Y == Str(<<"Y">>)

N == Str(<<"N">>)

\* bool(v): None, the empty string and 0 are false.
Truthy(v) == /\ v # None
             /\ v # Str(<<>>)
             /\ v # Num(0)

\* data[k] = v on a dict: the key is added when it is new.
Put(d, k, v) == [x \in (DOMAIN d) \cup {k} |-> IF x = k THEN v ELSE d[x]]

\* data.get(k)
Get(d, k) == IF k \in DOMAIN d THEN d[k] ELSE None

-----------------------------------------------------------------------------
(* str methods on token sequences *)

Whitespace == {"sp", "nl"}

Digits == {"0", "1", "2", "3", "4", "5", "6", "7", "8", "9"}

RECURSIVE LStrip(_)
LStrip(s) == IF s # <<>> /\ Head(s) \in Whitespace THEN LStrip(Tail(s)) ELSE s

RECURSIVE RStrip(_)
RStrip(s) == IF s # <<>> /\ s[Len(s)] \in Whitespace
             THEN RStrip(SubSeq(s, 1, Len(s) - 1))
             ELSE s

\* str.strip()
Strip(s) == RStrip(LStrip(s))

\* `sub in text`
Contains(text, sub) ==
    \E k \in 0..(Len(text) - Len(sub)) : SubSeq(text, k + 1, k + Len(sub)) = sub

\* The least index of s whose token is in T, 0 when there is none.
FirstIn(s, T) ==
    IF \E j \in 1..Len(s) : s[j] \in T
    THEN CHOOSE j \in 1..Len(s) : s[j] \in T /\ \A k \in 1..(j - 1) : s[k] \notin T
    ELSE 0

\* str.split(sep) for a one-character separator: always at least one part.
RECURSIVE Split(_, _)
Split(s, sep) ==
    LET j == FirstIn(s, {sep})
    IN  IF j = 0 THEN <<s>>
        ELSE <<SubSeq(s, 1, j - 1)>> \o Split(SubSeq(s, j + 1, Len(s)), sep)

\* str.replace(old, ""): every non-overlapping occurrence, left to right.
RECURSIVE Remove(_, _)
Remove(s, old) ==
    IF Len(s) < Len(old) \/ s = <<>> THEN s
    ELSE IF SubSeq(s, 1, Len(old)) = old
         THEN Remove(SubSeq(s, Len(old) + 1, Len(s)), old)
         ELSE <<Head(s)>> \o Remove(Tail(s), old)

\* [f.strip() for f in parts]
StripAll(parts) == [k \in 1..Len(parts) |-> Strip(parts[k])]

\* `x in list`
InList(x, list) == \E k \in 1..Len(list) : list[k] = x

-----------------------------------------------------------------------------
(* The tables of the source *)

\* UI_MAPPING, in dict order: caption -> output key.  Captions that share a
\* character keep it as a token of its own ("ryo" is U+6599).
UI_MAPPING == <<
    [label |-> <<"L_building_name">>,      key |-> "building_name_ja"],
    [label |-> <<"L_type">>,               key |-> "building_type"],
    [label |-> <<"L_structure">>,          key |-> "structure"],
    [label |-> <<"L_address">>,            key |-> "address"],
    [label |-> <<"L_year">>,               key |-> "year"],
    [label |-> <<"L_unit_no">>,            key |-> "unit_no"],
    [label |-> <<"L_floor", "/", "L_floors">>, key |-> "floor_no/floors"],
    [label |-> <<"L_room_type">>,          key |-> "room_type"],
    [label |-> <<"L_size">>,               key |-> "size"],
    [label |-> <<"L_facing">>,             key |-> "facing"],
    [label |-> <<"chin", "ryo">>,          key |-> "monthly_rent"],
    [label |-> <<"L_maintenance">>,        key |-> "monthly_maintenance"],
    [label |-> <<"L_deposit", "/", "L_security">>, key |-> "deposit/security_deposit"],
    [label |-> <<"L_key_money", "/", "L_amortization">>, key |-> "key_money/amortization"],
    [label |-> <<"koshin", "ryo">>,        key |-> "months_renewal"],
    [label |-> <<"hoken", "ryo">>,         key |-> "fire_insurance"],
    [label |-> <<"L_free_rent">>,          key |-> "discount"],
    [label |-> <<"L_available">>,          key |-> "available_from"],
    [label |-> <<"L_move_out_fee">>,       key |-> "other_initial_fees"],
    [label |-> <<"L_pets">>,               key |-> "pets"],
    [label |-> <<"L_notes">>,              key |-> "property_notes"],
    [label |-> <<"L_features">>,           key |-> "features"] >>

\* The values of FEATURES_MAPPING, in dict order.  The Japanese name mapped to
\* key k is the token "jp_" \o k (FEATURES_MAPPING is one-to-one).
FEATURE_KEYS == <<
    "aircon", "aircon_heater", "all_electric", "auto_fill_bath", "balcony",
    "bath", "bath_water_heater", "blinds", "bs", "cable", "carpet",
    "cleaning_service", "counter_kitchen", "dishwasher", "drapes",
    "female_only", "fireplace", "flooring", "full_kitchen", "furnished",
    "gas", "induction_cooker", "internet_broadband", "internet_wifi",
    "japanese_toilet", "linen", "loft", "microwave", "oven", "phoneline",
    "range", "refrigerator", "refrigerator_freezer", "roof_balcony",
    "separate_toilet", "shower", "soho", "storage", "student_friendly",
    "system_kitchen", "tatami", "underfloor_heating", "unit_bath",
    "utensils_cutlery", "veranda", "washer_dryer", "washing_machine",
    "washlet", "western_toilet" >>

FEATURES_MAPPING ==
    [k \in 1..Len(FEATURE_KEYS) |->
        [jp |-> <<"jp_" \o FEATURE_KEYS[k]>>, key |-> FEATURE_KEYS[k]]]

\* JP_TO_EN_FACING: kita U+5317, higashi U+6771, minami U+5357, nishi U+897F.
JP_TO_EN_FACING == <<
    [jp |-> <<"kita">>,              key |-> "facing_north"],
    [jp |-> <<"kita", "higashi">>,   key |-> "facing_northeast"],
    [jp |-> <<"higashi">>,           key |-> "facing_east"],
    [jp |-> <<"minami", "higashi">>, key |-> "facing_southeast"],
    [jp |-> <<"minami">>,            key |-> "facing_south"],
    [jp |-> <<"minami", "nishi">>,   key |-> "facing_southwest"],
    [jp |-> <<"nishi">>,             key |-> "facing_west"],
    [jp |-> <<"kita", "nishi">>,     key |-> "facing_northwest"] >>

DEFAULT_FEATURES == <<
    "aircon", "aircon_heater", "bs", "internet_broadband", "phoneline",
    "flooring", "system_kitchen", "bath", "shower", "unit_bath",
    "western_toilet", "credit_card" >>

\* The default of parse_images' max_images.
MAX_IMAGES == 16

\* The site origin that parse_images puts before a URL starting with "/".
ORIGIN == <<"https:", "/", "/", "rent.tokyu-housing-lease.co.jp">>

-----------------------------------------------------------------------------
(* get_value_by_label.  A document holds rows (the children of one dl or   *)
(* tr, in order; siblings are the elements of one row) and img elements.   *)
(* An element is [name, text] with a single text node and no element       *)
(* nested in it; get_text(strip=True) is then Strip(text).                 *)

\* The places <<row, column>> of the document.
Places(sp) == UNION {{<<r, c>> : c \in 1..Len(sp.rows[r])} : r \in 1..Len(sp.rows)}

\* Document order.
Before(p, q) == p[1] < q[1] \/ (p[1] = q[1] /\ p[2] < q[2])

\* soup.find(lambda tag: tag.name == name and label in tag.get_text(strip=True)):
\* the first such element in document order, None when there is none.
Find(sp, name, label) ==
    LET hits == {p \in Places(sp) :
                    /\ sp.rows[p[1]][p[2]].name = name
                    /\ Contains(Strip(sp.rows[p[1]][p[2]].text), label)}
    IN  IF hits = {} THEN None
        ELSE CHOOSE p \in hits : \A q \in hits : q = p \/ Before(p, q)

\* find_next in place of find_next_sibling: the first later element of the
\* document with that name, whatever its row.
FindNext(sp, p, name) ==
    LET later == {q \in Places(sp) : Before(p, q) /\ sp.rows[q[1]][q[2]].name = name}
    IN  IF later = {} THEN None
        ELSE CHOOSE q \in later : \A e \in later : e = q \/ Before(q, e)

\* tag.find_next_sibling(name): the first later element of the same row with
\* that name, None when there is none.
FindNextSibling(sp, p, name) ==
    LET later == {c \in (p[2] + 1)..Len(sp.rows[p[1]]) : sp.rows[p[1]][c].name = name}
    IN  IF later = {} THEN None
        ELSE <<p[1], CHOOSE c \in later : \A e \in later : c <= e>>

GetText(sp, p) == Str(Strip(sp.rows[p[1]][p[2]].text))

get_value_by_label(sp, label) ==
    LET dt == Find(sp, "dt", label)
        dd == IF dt = None THEN None ELSE FindNextSibling(sp, dt, "dd")
        th == Find(sp, "th", label)
        td == IF th = None THEN None ELSE FindNextSibling(sp, th, "td")
    IN  IF dt # None /\ dd # None THEN GetText(sp, dd)
        ELSE IF th # None /\ td # None THEN GetText(sp, td)
        ELSE None

-----------------------------------------------------------------------------
(* parse_japanese_address *)

\* [U+90FD U+9053 U+5E9C U+770C]
PrefectureEnd == {"to", "do", "fu", "ken"}

\* [U+5E02 U+533A U+753A U+6751]
CityEnd == {"shi", "ku", "machi", "mura"}

\* re.match(r"^(.*?[T])", s): the shortest prefix that ends with a token of T;
\* "." matches no line break, so a line break before that token means no match
\* (None).  Otherwise group(1).
MatchUpTo(s, T) ==
    LET j == FirstIn(s, T)
    IN  IF j = 0 \/ (\E k \in 1..(j - 1) : s[k] = "nl") THEN None
        ELSE Str(SubSeq(s, 1, j))

\* re.search in place of re.match: the first run of non-digits, wherever it
\* starts.
SearchNonDigits(s) ==
    LET rest == IF FirstIn(s, Digits) = 1
                THEN LET k == CHOOSE k \in 1..(Len(s) + 1) :
                                /\ \A m \in 1..(k - 1) : s[m] \in Digits
                                /\ (k = Len(s) + 1 \/ s[k] \notin Digits)
                     IN  SubSeq(s, k, Len(s))
                ELSE s
        j == FirstIn(rest, Digits)
        n == IF j = 0 THEN Len(rest) ELSE j - 1
    IN  IF n = 0 THEN None ELSE Str(SubSeq(rest, 1, n))

\* re.match(r"^([^\d]+)", s): the longest leading run of non-digits, None
\* when the run is empty.
MatchNonDigits(s) ==
    LET j == FirstIn(s, Digits)
        n == IF j = 0 THEN Len(s) ELSE j - 1
    IN  IF n = 0 THEN None ELSE Str(SubSeq(s, 1, n))

\* s[len(m):] if m else s
After(s, m) == IF Truthy(m) THEN SubSeq(s, Len(m[2]) + 1, Len(s)) ELSE s

parse_japanese_address(address) ==
    LET prefecture == MatchUpTo(address, PrefectureEnd)
        remaining1 == After(address, prefecture)
        city       == MatchUpTo(remaining1, CityEnd)
        remaining2 == After(remaining1, city)
        district   == MatchNonDigits(remaining2)
        chome_banchi == After(remaining2, district)
    IN  <<prefecture, city, district, Str(chome_banchi)>>

-----------------------------------------------------------------------------
(* parse_images.  An img element is a record of its attributes src,        *)
(* data_src, data_lazy and alt, each None (absent) or Str(text).           *)

\* a or b
Or(a, b) == IF Truthy(a) THEN a ELSE b

ImageCategoryKey(n) == "image_category_" \o ToString(n)

ImageUrlKey(n) == "image_url_" \o ToString(n)

ImgUrl(img) == Or(Or(img.src, img.data_src), img.data_lazy)

\* if url.startswith("/"): url = origin + url
Resolve(url) == IF url # <<>> /\ Head(url) = "/" THEN ORIGIN \o url ELSE url

\* What the body of the loop does with a counted image: count += 1 and the
\* two writes.
StoreImage(st, img) ==
    LET count == st.count + 1
        url == Resolve(ImgUrl(img)[2])
        category == Or(img.alt, Str(<<"N", "o", "n", "e">>))
    IN  [count |-> count,
         data  |-> Put(Put(st.data, ImageCategoryKey(count), category),
                       ImageUrlKey(count), Str(url))]

\* count += 1 before the URL is looked at: an element without a URL takes a
\* slot.
RECURSIVE ImagesLoopCountingAll(_, _, _, _)
ImagesLoopCountingAll(imgs, k, st, max_images) ==
    IF k > Len(imgs) \/ st.count >= max_images THEN st
    ELSE IF ~Truthy(ImgUrl(imgs[k]))
         THEN ImagesLoopCountingAll(imgs, k + 1, [st EXCEPT !.count = @ + 1], max_images)
         ELSE ImagesLoopCountingAll(imgs, k + 1, StoreImage(st, imgs[k]), max_images)

\* The loop over soup.select("img") from element k on; st = [count, data].
RECURSIVE ImagesLoop(_, _, _, _)
ImagesLoop(imgs, k, st, max_images) ==
    IF k > Len(imgs) \/ st.count >= max_images THEN st
    ELSE IF ~Truthy(ImgUrl(imgs[k])) THEN ImagesLoop(imgs, k + 1, st, max_images)
    ELSE ImagesLoop(imgs, k + 1, StoreImage(st, imgs[k]), max_images)

\* for i in range(count + 1, max_images + 1): both keys of slot i = None
FillImages(st, max_images) ==
    LET slots == (st.count + 1)..max_images
        keys == {ImageCategoryKey(n) : n \in slots} \cup {ImageUrlKey(n) : n \in slots}
    IN  [x \in (DOMAIN st.data) \cup keys |-> IF x \in keys THEN None ELSE st.data[x]]

parse_images(sp, d, max_images) ==
    FillImages(ImagesLoop(sp.imgs, 1, [count |-> 0, data |-> d], max_images), max_images)

-----------------------------------------------------------------------------
(* parse_property: the handlers of the label loop *)

\* OUTPUT_KEYS of fields.py: the declared schema.
OUTPUT_KEYS ==
    {"building_name_ja", "building_type", "structure", "prefecture", "city",
     "district", "chome_banchi", "year", "unit_no", "floor_no", "floors",
     "room_type", "size", "facing_north", "facing_northeast", "facing_east",
     "facing_southeast", "facing_south", "facing_southwest", "facing_west",
     "facing_northwest", "monthly_rent", "monthly_maintenance",
     "months_security_deposit", "numeric_security_deposit", "months_key",
     "numeric_key", "months_renewal", "fire_insurance", "discount",
     "available_from", "other_initial_fees", "pets", "property_notes",
     "months_guarantor", "numeric_guarantor", "months_agency", "credit_card"}
    \cup {FEATURE_KEYS[k] : k \in 1..Len(FEATURE_KEYS)}

\* for k in keys: d[k] = v
PutAll(d, keys, v) == [x \in (DOMAIN d) \cup keys |-> IF x \in keys THEN v ELSE d[x]]

\* The default case reached as well: the text also stored under "address".
HandleAddressAndKey(d, value) ==
    LET a == parse_japanese_address(value)
    IN  Put(Put(Put(Put(Put(d, "prefecture", a[1]), "city", a[2]), "district", a[3]),
                "chome_banchi", a[4]), "address", Str(value))

\* output_key == "address"
HandleAddress(d, value) ==
    LET a == parse_japanese_address(value)
    IN  Put(Put(Put(Put(d, "prefecture", a[1]), "city", a[2]), "district", a[3]),
            "chome_banchi", a[4])

\* JP_TO_EN_FACING.get(text)
FacingKey(text) ==
    IF \E k \in 1..Len(JP_TO_EN_FACING) : JP_TO_EN_FACING[k].jp = text
    THEN Str(<<JP_TO_EN_FACING[CHOOSE k \in 1..Len(JP_TO_EN_FACING) :
                                   JP_TO_EN_FACING[k].jp = text].key>>)
    ELSE None

\* Without the loop that first sets the eight keys to "N".
HandleFacingNoReset(d, value) ==
    LET key_name == FacingKey(Strip(value))
    IN  IF Truthy(key_name) THEN Put(d, key_name[2][1], Y) ELSE d

\* output_key == "facing"
HandleFacing(d, value) ==
    LET all == PutAll(d, {JP_TO_EN_FACING[k].key : k \in 1..Len(JP_TO_EN_FACING)}, N)
        key_name == FacingKey(Strip(value))
    IN  IF Truthy(key_name) THEN Put(all, key_name[2][1], Y) ELSE all

\* output_key == "features"
HandleFeatures(d, value) ==
    LET features_list == StripAll(Split(value, "comma_ja"))
        mapped == {FEATURES_MAPPING[k].key : k \in 1..Len(FEATURES_MAPPING)}
        flag(key) == LET k == CHOOSE k \in 1..Len(FEATURES_MAPPING) :
                                  FEATURES_MAPPING[k].key = key
                     IN  IF InList(FEATURES_MAPPING[k].jp, features_list) THEN Y ELSE N
        flagged == [x \in (DOMAIN d) \cup mapped |->
                        IF x \in mapped THEN flag(x) ELSE d[x]]
    IN  PutAll(flagged, {DEFAULT_FEATURES[k] : k \in 1..Len(DEFAULT_FEATURES)}, Y)

\* The second part stored under "unit_no" instead of "floors".
HandleFloorIntoUnitNo(d, value) ==
    LET parts == Split(value, "/")
    IN  Put(Put(d, "floor_no", IF Len(parts) > 0 THEN Str(Strip(parts[1])) ELSE None),
            "unit_no", IF Len(parts) > 1 THEN Str(Strip(parts[2])) ELSE None)

\* output_key == "floor_no/floors"
HandleFloor(d, value) ==
    LET parts == Split(value, "/")
    IN  Put(Put(d, "floor_no", IF Len(parts) > 0 THEN Str(Strip(parts[1])) ELSE None),
            "floors", IF Len(parts) > 1 THEN Str(Strip(parts[2])) ELSE None)

\* "0" if part.strip() == "-" else part.strip()
DashToZero(part) == IF Strip(part) = <<"-">> THEN Str(<<"0">>) ELSE Str(Strip(part))

\* len(parts) >= 2 in place of len(parts) == 2.
HandlePairAtLeastTwo(d, value, months_key, numeric_key) ==
    LET parts == Split(value, "/")
    IN  IF Len(parts) >= 2
        THEN Put(Put(d, months_key, DashToZero(parts[1])), numeric_key, DashToZero(parts[2]))
        ELSE d

\* output_key == "deposit/security_deposit" and "key_money/amortization",
\* writing months_key and numeric_key.
HandlePair(d, value, months_key, numeric_key) ==
    LET parts == Split(value, "/")
    IN  IF Len(parts) = 2
        THEN Put(Put(d, months_key, DashToZero(parts[1])), numeric_key, DashToZero(parts[2]))
        ELSE d

\* Without the cut at the wave dash.
HandleRentWhole(d, value) == Put(d, "monthly_rent", Str(value))

\* output_key == "monthly_rent"
HandleRent(d, value) ==
    Put(d, "monthly_rent",
        Str(IF Contains(value, <<"tilde">>) THEN Strip(Split(value, "tilde")[1]) ELSE value))

\* The dispatch on output_key for a non-empty value (text).
Normalize(d, output_key, value) ==
    CASE output_key = "address" -> HandleAddress(d, value)
      [] output_key = "facing" -> HandleFacing(d, value)
      [] output_key = "features" -> HandleFeatures(d, value)
      [] output_key = "floor_no/floors" -> HandleFloor(d, value)
      [] output_key = "deposit/security_deposit" ->
            HandlePair(d, value, "months_security_deposit", "numeric_security_deposit")
      [] output_key = "key_money/amortization" ->
            HandlePair(d, value, "months_key", "numeric_key")
      [] output_key = "monthly_rent" -> HandleRent(d, value)
      [] OTHER -> Put(d, output_key, Str(value))

\* One iteration of the loop over UI_MAPPING.items(), for its k-th entry.
LoopBody(d, sp, k) ==
    LET value == get_value_by_label(sp, UI_MAPPING[k].label)
    IN  IF ~Truthy(value) THEN d ELSE Normalize(d, UI_MAPPING[k].key, value[2])

-----------------------------------------------------------------------------
(* parse_property: rent and the derived fees *)

DigitValue(c) == CHOOSE n \in 0..9 : ToString(n) = c

\* The number written by a sequence of digits (0 for none).
RECURSIVE Decimal(_)
Decimal(s) == IF s = <<>> THEN 0
              ELSE 10 * Decimal(SubSeq(s, 1, Len(s) - 1)) + DigitValue(s[Len(s)])

RECURSIVE Pow10(_)
Pow10(n) == IF n = 0 THEN 1 ELSE 10 * Pow10(n - 1)

\* float(s) for a text of signs, digits and points: the value n/d, or a
\* ValueError.  (Exponents, underscores, "inf" and "nan" are not among the
\* tokens of the texts considered.)  The arithmetic on n/d is exact; the rent
\* texts of FieldValues are texts on which Python's binary floating point
\* gives the same rent and the same rounded fees.
ParseFloat(s) ==
    LET signed == s # <<>> /\ Head(s) \in {"-", "+"}
        body   == IF signed THEN Tail(s) ELSE s
        j      == FirstIn(body, {"."})
        whole  == IF j = 0 THEN body ELSE SubSeq(body, 1, j - 1)
        frac   == IF j = 0 THEN <<>> ELSE SubSeq(body, j + 1, Len(body))
        ok     == /\ \A k \in 1..Len(whole) : whole[k] \in Digits
                  /\ \A k \in 1..Len(frac) : frac[k] \in Digits
                  /\ Len(whole) + Len(frac) >= 1
    IN  IF ~ok THEN [error |-> "ValueError"]
        ELSE [error |-> "",
              n |-> (IF signed /\ Head(s) = "-" THEN -1 ELSE 1) * Decimal(whole \o frac),
              d |-> Pow10(Len(frac))]

\* Without .replace(",", ""): a thousands separator reaches float().
parse_rent_with_commas(monthly_rent) ==
    IF Truthy(monthly_rent) /\ monthly_rent # Str(<<"-">>)
    THEN LET rent_str == Strip(Remove(Split(monthly_rent[2], "tilde")[1], <<"man", "en">>))
             f == ParseFloat(rent_str)
         IN  IF f.error = "ValueError" THEN [raised |-> "", n |-> 0, d |-> 1]
             ELSE [raised |-> f.error, n |-> f.n * 10000, d |-> f.d]
    ELSE [raised |-> "", n |-> 0, d |-> 1]

\* Lines 218-225: the rent in yen as the fraction n/d; raised names an
\* exception that leaves parse_property.
parse_rent(monthly_rent) ==
    IF Truthy(monthly_rent) /\ monthly_rent # Str(<<"-">>)
    THEN LET rent_str == Strip(Remove(Remove(Split(monthly_rent[2], "tilde")[1],
                                             <<"man", "en">>), <<",">>))
             f == ParseFloat(rent_str)
         IN  IF f.error = "ValueError" THEN [raised |-> "", n |-> 0, d |-> 1]
             ELSE [raised |-> f.error, n |-> f.n * 10000, d |-> f.d]
    ELSE [raised |-> "", n |-> 0, d |-> 1]

\* round(n/d, 0): Python rounds a tie to the even neighbour.
Round(n, d) ==
    LET q == n \div d
        r == n - q * d
    IN  IF 2 * r < d THEN q
        ELSE IF 2 * r > d THEN q + 1
        ELSE IF q % 2 = 0 THEN q ELSE q + 1

\* if not data.get(key): data[key] = round(rent * num/den, 0)
DeriveFee(d, key, r, num, den) ==
    IF ~Truthy(Get(d, key)) THEN Put(d, key, Num(Round(r.n * num, r.d * den))) ELSE d

\* Lines 227-232.
DeriveFees(d, r) ==
    DeriveFee(DeriveFee(DeriveFee(d, "months_guarantor", r, 5, 10),
                        "numeric_guarantor", r, 10, 10),
              "months_agency", r, 11, 10)

-----------------------------------------------------------------------------
(* The documents considered *)

\* The most labelled rows of a listing document.
MaxFields == 2

\* The extracted texts considered for the label with output key `key`.
FieldValues(key) ==
    CASE key = "address" ->
            {<<"tokyo", "to", "minato", "ku", "akasaka", "1", "-", "2">>,
             <<"yokohama", "shi", "naka", "3">>,
             <<"1", "-", "2">>}
      [] key = "facing" ->
            {<<"kita", "higashi">>, <<"minami", "muki">>, <<>>}
      [] key = "features" ->
            {<<"jp_balcony", "comma_ja", "sp", "jp_loft">>, <<"other">>}
      [] key = "floor_no/floors" ->
            {<<"3", "/", "1", "0">>, <<"3">>}
      [] key = "deposit/security_deposit" ->
            {<<"2", "/", "3", "0", "0", ",", "0", "0", "0">>,
             <<"-", "/", "-">>,
             <<"2", "sp", "/", "sp", "-">>,
             <<"1", "/", "2", "/", "3">>}
      [] key = "key_money/amortization" ->
            {<<"-", "/", "-">>, <<"2">>, <<"1", "/", "2", "/", "3">>}
      [] key = "monthly_rent" ->
            {<<"8", ".", "5", "tilde", "9", ".", "2", "man", "en">>,
             <<"8", ".", "5", "man", "en", "tilde", "9", ".", "2", "man", "en">>,
             <<"1", "0", "man", "en">>,
             <<"1", "0", "sp", "tilde", "sp", "1", "2", "man", "en">>,
             <<"1", ",", "2", "3", "4", ".", "5", "man", "en">>,
             <<"0", ".", "0", "0", "0", "2", "5", "man", "en">>,
             <<"tilde", "9", "man", "en">>,
             <<"8", ".", "5", "man">>,
             <<"-">>}
      [] key = "pets" -> {<<"x">>, <<>>}
      [] OTHER -> {<<"x">>}

\* A field of a listing: <<k, text>>, the k-th label of UI_MAPPING and the text
\* of its value element.
Fields == UNION {{<<k, v>> : v \in FieldValues(UI_MAPPING[k].key)} : k \in 1..Len(UI_MAPPING)}

\* The listings of at most n fields, in the order of their labels.
RECURSIVE Listings(_)
Listings(n) ==
    IF n = 0 THEN {<<>>}
    ELSE LET less == Listings(n - 1)
         IN  less \cup {Append(l, f) : <<l, f>> \in
                            {x \in less \X Fields :
                                x[1] = <<>> \/ x[1][Len(x[1])][1] < x[2][1]}}

\* The row of a field: a dt/dd pair for an odd label, a th/td pair for an even
\* one; the caption holds the label between blanks.
RowOf(f) ==
    LET caption == <<"sp">> \o UI_MAPPING[f[1]].label \o <<"sp">>
    IN  IF f[1] % 2 = 1
        THEN <<[name |-> "dt", text |-> caption], [name |-> "dd", text |-> f[2]]>>
        ELSE <<[name |-> "th", text |-> caption], [name |-> "td", text |-> f[2]]>>

\* The img elements considered in a listing document.
SampleImgs == <<
    [src |-> Str(<<"/", "a.jpg">>), data_src |-> None, data_lazy |-> None,
     alt |-> Str(<<"gaikan">>)],
    [src |-> None, data_src |-> None, data_lazy |-> None, alt |-> Str(<<"icon">>)],
    [src |-> Str(<<>>), data_src |-> Str(<<"http:", "/", "/", "b.jpg">>),
     data_lazy |-> None, alt |-> None] >>

\* The document of a listing: its rows, and as many img elements as rows.
DocOf(l) ==
    [rows |-> [k \in 1..Len(l) |-> RowOf(l[k])],
     imgs |-> SubSeq(SampleImgs, 1, IF Len(l) < Len(SampleImgs) THEN Len(l)
                                    ELSE Len(SampleImgs))]

NoDoc == [rows |-> <<>>, imgs |-> <<>>]

-----------------------------------------------------------------------------
(* parse_property as a state machine *)

Zero == [raised |-> "", n |-> 0, d |-> 1]

Init ==
    /\ soup \in {DocOf(l) : l \in Listings(MaxFields)}
    /\ data = <<>>
    /\ pc = "start"
    /\ i = 0
    /\ rent = Zero
    /\ arg = None
    /\ ret = None

\* Lines 162-164: every schema key None, then link (the URL given) and
\* create_date (the time of the call).
NewRecord ==
    Put(Put([k \in OUTPUT_KEYS |-> None], "link", Str(<<"url">>)),
        "create_date", Str(<<"now">>))

\* Lines 158-164: the document is fetched and parsed, the record created.
Start ==
    /\ pc = "start"
    /\ data' = NewRecord
    /\ i' = 1
    /\ pc' = "labels"
    /\ UNCHANGED <<soup, rent, arg, ret>>

\* Lines 167-215: one iteration of the loop over UI_MAPPING.
LabelStep ==
    /\ pc = "labels"
    /\ i <= Len(UI_MAPPING)
    /\ data' = LoopBody(data, soup, i)
    /\ i' = i + 1
    /\ UNCHANGED <<soup, pc, rent, arg, ret>>

\* Lines 217-232: the rent and the derived fees.
Derive ==
    /\ pc = "labels"
    /\ i > Len(UI_MAPPING)
    /\ LET r == parse_rent(Get(data, "monthly_rent"))
       IN  /\ rent' = r
           /\ IF r.raised # ""
              THEN pc' = "raised" /\ data' = data
              ELSE pc' = "images" /\ data' = DeriveFees(data, r)
    /\ UNCHANGED <<soup, i, arg, ret>>

\* Lines 235-237: the images, and the record is returned.
Images ==
    /\ pc = "images"
    /\ data' = parse_images(soup, data, MAX_IMAGES)
    /\ pc' = "done"
    /\ UNCHANGED <<soup, i, rent, arg, ret>>

Next == Start \/ LabelStep \/ Derive \/ Images

Spec == Init /\ [][Next]_vars

-----------------------------------------------------------------------------
(* parse_japanese_address on its own: every text of at most MaxAddrLen     *)
(* tokens over prefecture ends, city ends, a letter, a digit and a line    *)
(* break.                                                                  *)

MaxAddrLen == 4

AddrTokens == {"to", "ken", "shi", "ku", "a", "1", "nl"}

AddrTexts == UNION {[1..n -> AddrTokens] : n \in 0..MaxAddrLen}

InitAddr ==
    /\ arg \in AddrTexts
    /\ ret = None
    /\ pc = "call"
    /\ soup = NoDoc
    /\ data = <<>>
    /\ i = 0
    /\ rent = Zero

AddrCall ==
    /\ pc = "call"
    /\ ret' = parse_japanese_address(arg)
    /\ pc' = "returned"
    /\ UNCHANGED <<soup, data, i, rent, arg>>

NextAddr == AddrCall

SpecAddr == InitAddr /\ [][NextAddr]_vars

-----------------------------------------------------------------------------
(* get_value_by_label on its own: documents of at most MaxRows rows, each  *)
(* of one of the shapes below, searched for the caption U+8CC3 U+6599.     *)

MaxRows == 3

RentLabel == <<"chin", "ryo">>

\* A caption that holds the label, one that holds its characters apart, and
\* the value text of the element at <<r, c>> (told apart by its place).
CaptionText == <<"sp", "x", "chin", "ryo", "nl">>

OtherText == <<"chin", "x", "ryo">>

ValueText(r, c) == <<"sp", "v", ToString(r), ToString(c), "nl">>

RowShapes == {
    <<"dt+", "dd">>,
    <<"dt+">>,
    <<"dd", "dt+">>,
    <<"dt-", "dd">>,
    <<"th+", "td">>,
    <<"th+">>,
    <<"td", "th+">>,
    <<"th-", "td">>,
    <<"dt+", "td", "dd">>,
    <<"th+", "dd", "td", "td">>,
    <<"dt+", "dt+", "dd", "dd">>,
    <<"dt+", "th+", "td", "dd">> }

\* The element that a shape puts at <<r, c>>: "+" marks a caption holding the
\* label, "-" one that does not.
ElementOf(shape, r, c) ==
    CASE shape[c] = "dt+" -> [name |-> "dt", text |-> CaptionText]
      [] shape[c] = "dt-" -> [name |-> "dt", text |-> OtherText]
      [] shape[c] = "th+" -> [name |-> "th", text |-> CaptionText]
      [] shape[c] = "th-" -> [name |-> "th", text |-> OtherText]
      [] OTHER -> [name |-> shape[c], text |-> ValueText(r, c)]

LabelDocs ==
    {[rows |-> [r \in 1..Len(shapes) |->
                    [c \in 1..Len(shapes[r]) |-> ElementOf(shapes[r], r, c)]],
      imgs |-> <<>>] :
        shapes \in UNION {[1..n -> RowShapes] : n \in 0..MaxRows}}

InitLabel ==
    /\ soup \in LabelDocs
    /\ arg = RentLabel
    /\ ret = None
    /\ pc = "call"
    /\ data = <<>>
    /\ i = 0
    /\ rent = Zero

LabelCall ==
    /\ pc = "call"
    /\ ret' = get_value_by_label(soup, arg)
    /\ pc' = "returned"
    /\ UNCHANGED <<soup, data, i, rent, arg>>

NextLabel == LabelCall

SpecLabel == InitLabel /\ [][NextLabel]_vars

-----------------------------------------------------------------------------
(* parse_images on its own: documents of at most MaxImgs img elements, at  *)
(* most MaxNoUrl of them without a URL.                                    *)

MaxImgs == 18

MaxNoUrl == 2

UrlOf(p) == <<"http:", "/", "/", "img", ToString(p)>>

PathOf(p) == <<"/", "img", ToString(p)>>

AltOf(p) == Str(<<"alt", ToString(p)>>)

\* The p-th img element: without a URL when p is in `without`, else with its
\* URL in one of the three attributes, absolute or site-relative, with or
\* without alt text.
ImgAt(p, without) ==
    IF p \in without
    THEN IF p % 2 = 0
         THEN [src |-> None, data_src |-> None, data_lazy |-> None, alt |-> AltOf(p)]
         ELSE [src |-> Str(<<>>), data_src |-> None, data_lazy |-> Str(<<>>), alt |-> None]
    ELSE CASE p % 4 = 0 ->
                [src |-> Str(UrlOf(p)), data_src |-> None, data_lazy |-> None,
                 alt |-> AltOf(p)]
           [] p % 4 = 1 ->
                [src |-> None, data_src |-> Str(PathOf(p)), data_lazy |-> None,
                 alt |-> None]
           [] p % 4 = 2 ->
                [src |-> Str(<<>>), data_src |-> None, data_lazy |-> Str(UrlOf(p)),
                 alt |-> Str(<<>>)]
           [] OTHER ->
                [src |-> Str(PathOf(p)), data_src |-> Str(UrlOf(p)), data_lazy |-> None,
                 alt |-> AltOf(p)]

\* The subsets of S of at most k elements.
RECURSIVE UpTo(_, _)
UpTo(S, k) ==
    IF k = 0 THEN {{}}
    ELSE LET less == UpTo(S, k - 1)
         IN  less \cup {x \cup {e} : <<x, e>> \in less \X S}

ImgLists ==
    UNION {{[p \in 1..n |-> ImgAt(p, without)] : without \in UpTo(1..n, MaxNoUrl)} :
              n \in 0..MaxImgs}

InitImages ==
    /\ soup \in {[rows |-> <<>>, imgs |-> l] : l \in ImgLists}
    /\ data = <<>>
    /\ pc = "call"
    /\ arg = None
    /\ ret = None
    /\ i = 0
    /\ rent = Zero

ImagesCall ==
    /\ pc = "call"
    /\ data' = parse_images(soup, data, MAX_IMAGES)
    /\ pc' = "returned"
    /\ UNCHANGED <<soup, i, rent, arg, ret>>

NextImages == ImagesCall

SpecImages == InitImages /\ [][NextImages]_vars

-----------------------------------------------------------------------------
(* Properties *)

\* The caption of the label with output key `key`, and the value that
\* get_value_by_label extracts for it from the document.
LabelOf(key) == UI_MAPPING[CHOOSE k \in 1..Len(UI_MAPPING) : UI_MAPPING[k].key = key].label

Extracted(key) == get_value_by_label(soup, LabelOf(key))

ImageKeys == {ImageCategoryKey(n) : n \in 1..MAX_IMAGES} \cup
             {ImageUrlKey(n) : n \in 1..MAX_IMAGES}

FacingKeys == {"facing_north", "facing_northeast", "facing_east", "facing_southeast",
               "facing_south", "facing_southwest", "facing_west", "facing_northwest"}

DefaultFeatureKeys == {DEFAULT_FEATURES[k] : k \in 1..Len(DEFAULT_FEATURES)}

C2_DefaultsAlwaysY ==
    pc = "done" => \A k \in DefaultFeatureKeys : Get(data, k) = Y

\* The text before the first wave dash of t, trimmed.
LowerBound(t) == Strip(SubSeq(t, 1, FirstIn(t, {"tilde"}) - 1))

\* Lower bounds as written, with their value in yen.
RentNumerals == {[text |-> <<"8", ".", "5">>, yen |-> 85000],
                 [text |-> <<"1", "0">>, yen |-> 100000]}

\* C3 as stated: a rent range "L~U man-en" is stored as L with the currency
\* suffix kept ("8.5 man-en"), and the yen value parsed is L times 10,000.
C3_SuffixKept ==
    (pc = "done" /\ Truthy(Extracted("monthly_rent"))
        /\ Contains(Extracted("monthly_rent")[2], <<"tilde">>)) =>
    \A m \in RentNumerals :
        LowerBound(Extracted("monthly_rent")[2]) = m.text =>
            /\ data["monthly_rent"] = Str(m.text \o <<"man", "en">>)
            /\ rent.n = m.yen * rent.d

\* C3 amended: a rent text with a wave dash is stored as the trimmed text
\* before the first wave dash and nothing else, so "8.5~9.2 man-en" is stored
\* as "8.5" (a suffix is kept only when the lower bound carries its own); the
\* yen value parsed is the lower bound times 10,000.
C3_LowerBoundOnly ==
    (pc = "done" /\ Truthy(Extracted("monthly_rent"))
        /\ Contains(Extracted("monthly_rent")[2], <<"tilde">>)) =>
    /\ data["monthly_rent"] = Str(LowerBound(Extracted("monthly_rent")[2]))
    /\ \A m \in RentNumerals :
        LowerBound(Extracted("monthly_rent")[2]) \in {m.text, m.text \o <<"man", "en">>} =>
            rent.n = m.yen * rent.d

\* The range "8.5~9.2 man-en" was extracted, and the record is returned with
\* "8.5" stored and 85000 yen parsed.
C3_Witness ==
    /\ pc = "done"
    /\ Extracted("monthly_rent") = Str(<<"8", ".", "5", "tilde", "9", ".", "2", "man", "en">>)
    /\ data["monthly_rent"] = Str(<<"8", ".", "5">>)
    /\ rent.n = 85000 * rent.d

\* None as the empty string.
TextOf(v) == IF v = None THEN <<>> ELSE v[2]

\* C4: the four parts that parse_japanese_address returns, concatenated in
\* order with None as the empty string, are the address it was given.
C4_AddressRoundTrip ==
    pc = "returned" =>
        TextOf(ret[1]) \o TextOf(ret[2]) \o TextOf(ret[3]) \o TextOf(ret[4]) = arg

\* An address without a prefecture end was parsed: no prefecture, but a
\* city, a district and a remainder.
C4_Witness ==
    /\ pc = "returned"
    /\ ret[1] = None /\ ret[2] # None /\ ret[3] # None /\ ret[4] # Str(<<>>)

\* C5: in a returned record at most one facing key is "Y"; a facing text equal
\* to a direction label sets that key to "Y" and the other seven to "N"; any
\* other non-empty text sets all eight to "N"; without a facing value all
\* eight stay null.
C5_FacingOneHot ==
    pc = "done" =>
        LET v == Extracted("facing")
            known == {k \in 1..Len(JP_TO_EN_FACING) :
                        Truthy(v) /\ JP_TO_EN_FACING[k].jp = Strip(v[2])}
        IN  /\ Cardinality({k \in FacingKeys : Get(data, k) = Y}) <= 1
            /\ \A k \in known : \A f \in FacingKeys :
                  Get(data, f) = IF f = JP_TO_EN_FACING[k].key THEN Y ELSE N
            /\ (Truthy(v) /\ known = {}) => \A f \in FacingKeys : Get(data, f) = N
            /\ ~Truthy(v) => \A f \in FacingKeys : Get(data, f) = None

\* The two-character direction U+5317 U+6771 was extracted and the record is
\* returned with facing_northeast set.
C5_Witness ==
    /\ pc = "done"
    /\ Extracted("facing") = Str(<<"kita", "higashi">>)
    /\ data["facing_northeast"] = Y
    /\ data["facing_north"] = N

\* What C6 expects of one composite: v the extracted value, a and b the two
\* sub-keys.
C6_Pair(v, a, b) ==
    LET t == v[2]
        slashes == {j \in 1..Len(t) : t[j] = "/"}
        j == CHOOSE j \in slashes : TRUE
        zero(x) == IF x = <<"-">> THEN <<"0">> ELSE x
    IN  IF Truthy(v) /\ Cardinality(slashes) = 1
        THEN /\ Get(data, a) = Str(zero(Strip(SubSeq(t, 1, j - 1))))
             /\ Get(data, b) = Str(zero(Strip(SubSeq(t, j + 1, Len(t)))))
        ELSE Get(data, a) = None /\ Get(data, b) = None

\* C6: a deposit or key-money value with exactly one "/" gives its two
\* trimmed parts to the two sub-keys in order, a "-" part as "0"
\* ("2/300,000" gives "2" and "300,000", "-/-" gives "0" and "0"); any other
\* number of parts leaves both sub-keys null.
C6_CompositeSplit ==
    pc = "done" =>
        /\ C6_Pair(Extracted("deposit/security_deposit"),
                   "months_security_deposit", "numeric_security_deposit")
        /\ C6_Pair(Extracted("key_money/amortization"), "months_key", "numeric_key")
        /\ Extracted("deposit/security_deposit")
              = Str(<<"2", "/", "3", "0", "0", ",", "0", "0", "0">>) =>
                /\ data["months_security_deposit"] = Str(<<"2">>)
                /\ data["numeric_security_deposit"]
                      = Str(<<"3", "0", "0", ",", "0", "0", "0">>)
        /\ Extracted("key_money/amortization") = Str(<<"-", "/", "-">>) =>
                data["months_key"] = Str(<<"0">>) /\ data["numeric_key"] = Str(<<"0">>)

\* A record returned for a deposit of "-/-" and a key money of three parts.
C6_Witness ==
    /\ pc = "done"
    /\ Extracted("deposit/security_deposit") = Str(<<"-", "/", "-">>)
    /\ data["months_security_deposit"] = Str(<<"0">>)
    /\ Extracted("key_money/amortization") = Str(<<"1", "/", "2", "/", "3">>)
    /\ data["months_key"] = None

\* An img element has a URL: one of the three attributes is a non-empty text.
HasUrl(img) == \E a \in {img.src, img.data_src, img.data_lazy} : a # None /\ a # Str(<<>>)

\* The places of the img elements that have a URL, in document order.
ValidPlaces == SelectSeq([p \in 1..Len(soup.imgs) |-> p], LAMBDA p : HasUrl(soup.imgs[p]))

\* What slot holds the image at place p of the documents of SpecImages: its
\* own URL (after the origin when site-relative) and its own alt text, or
\* "None" when it has no alt text.
C7_Url(p) == IF p % 4 \in {1, 3} THEN Str(ORIGIN \o PathOf(p)) ELSE Str(UrlOf(p))

C7_Category(p) == IF p % 4 \in {0, 3} THEN AltOf(p) ELSE Str(<<"N", "o", "n", "e">>)

\* C7: after parse_images the 32 slot keys are all written; with k the lesser
\* of 16 and the number of img elements that have a URL, slots 1..k hold the
\* first k of them in document order, both fields non-null, and slots k+1..16
\* hold null in both fields.
C7_ImageSlots ==
    pc = "returned" =>
        LET k == IF Len(ValidPlaces) < MAX_IMAGES THEN Len(ValidPlaces) ELSE MAX_IMAGES
        IN  /\ DOMAIN data = ImageKeys
            /\ \A n \in 1..k :
                  /\ data[ImageUrlKey(n)] = C7_Url(ValidPlaces[n])
                  /\ data[ImageCategoryKey(n)] = C7_Category(ValidPlaces[n])
                  /\ data[ImageUrlKey(n)] # None /\ data[ImageCategoryKey(n)] # None
            /\ \A n \in (k + 1)..MAX_IMAGES :
                  data[ImageUrlKey(n)] = None /\ data[ImageCategoryKey(n)] = None

\* Three images with a URL among five img elements: slots 1-3 are filled and
\* slot 4 is null.
C7_Witness ==
    /\ pc = "returned"
    /\ Len(ValidPlaces) = 3 /\ Len(soup.imgs) = 5 /\ ValidPlaces[1] = 2
    /\ data[ImageUrlKey(3)] # None /\ data[ImageUrlKey(4)] = None

\* The fees of lines 227-232 for each monthly_rent the label loop can leave,
\* as Python computes them: <<round(rent*0.5), round(rent*1.0), round(rent*1.1)>>.
C8_Fees(monthly_rent) ==
    CASE monthly_rent \in {Str(<<"8", ".", "5">>), Str(<<"8", ".", "5", "man", "en">>)} ->
            <<42500, 85000, 93500>>
      [] monthly_rent \in {Str(<<"1", "0">>), Str(<<"1", "0", "man", "en">>)} ->
            <<50000, 100000, 110000>>
      [] monthly_rent = Str(<<"1", ",", "2", "3", "4", ".", "5", "man", "en">>) ->
            <<6172500, 12345000, 13579500>>
      [] monthly_rent = Str(<<"0", ".", "0", "0", "0", "2", "5", "man", "en">>) ->
            <<1, 2, 3>>
      [] monthly_rent \in {None, Str(<<>>), Str(<<"-">>), Str(<<"8", ".", "5", "man">>)} ->
            <<0, 0, 0>>

C8_Keys == <<"months_guarantor", "numeric_guarantor", "months_agency">>

\* C8: the fee keys stay null through the label loop; the derived-fee pass
\* then runs without raising and gives each fee key that has no value
\* round(rent*0.5), round(rent*1.0), round(rent*1.1) for the rent parsed from
\* monthly_rent (0 for null, "-" or an unparsable text), leaving a key that has
\* a value as it is.
C8_DerivedFees ==
    [][(pc = "labels" =>
          /\ pc' # "raised"
          /\ \A k \in 1..3 : Get(data, C8_Keys[k]) = None)
       /\ ((pc = "labels" /\ pc' = "images") =>
            \A k \in 1..3 :
                Get(data', C8_Keys[k]) =
                    IF Truthy(Get(data, C8_Keys[k])) THEN Get(data, C8_Keys[k])
                    ELSE Num(C8_Fees(Get(data, "monthly_rent"))[k]))]_vars

\* The fees of a rent of 100000 yen in a returned record.
C8_Witness ==
    /\ pc = "done"
    /\ rent.n = 100000 /\ rent.d = 1
    /\ data["months_guarantor"] = Num(50000)
    /\ data["numeric_guarantor"] = Num(100000)
    /\ data["months_agency"] = Num(110000)

\* The element at a place, and "a caption of that name holding the label".
C9_At(p) == soup.rows[p[1]][p[2]]

C9_Caption(p, name) == C9_At(p).name = name /\ Contains(Strip(C9_At(p).text), arg)

\* p is the first caption of that name holding the label.
C9_First(p, name) ==
    /\ C9_Caption(p, name)
    /\ \A q \in Places(soup) : C9_Caption(q, name) => ~Before(q, p)

\* q is the first sibling after p with that name.
C9_Follows(p, q, name) ==
    /\ q[1] = p[1] /\ q[2] > p[2] /\ C9_At(q).name = name
    /\ \A c \in (p[2] + 1)..(q[2] - 1) : C9_At(<<p[1], c>>).name # name

\* The pairs <<caption, value>> of the pattern: the first caption and the
\* sibling that follows it.
C9_Pairs(caption, value) ==
    {x \in Places(soup) \X Places(soup) :
        C9_First(x[1], caption) /\ C9_Follows(x[1], x[2], value)}

\* C9: get_value_by_label returns the trimmed text of the dd following the
\* first dt that holds the label when there is such a dd, wherever th/td pairs
\* stand; else the trimmed text of the td following the first th that holds
\* the label; else None.  Later captions are not considered.
C9_LabelLookup ==
    pc = "returned" =>
        /\ \A x \in C9_Pairs("dt", "dd") : ret = Str(Strip(C9_At(x[2]).text))
        /\ C9_Pairs("dt", "dd") = {} =>
              \A x \in C9_Pairs("th", "td") : ret = Str(Strip(C9_At(x[2]).text))
        /\ (ret = None) <=> (C9_Pairs("dt", "dd") = {} /\ C9_Pairs("th", "td") = {})

\* The first dt has no dd, a later dt has one, and a th/td pair follows: the
\* td's text is returned.
C9_Witness ==
    /\ pc = "returned"
    /\ Len(soup.rows) = 3
    /\ Len(soup.rows[1]) = 1 /\ soup.rows[1][1].name = "dt"
    /\ Len(soup.rows[2]) = 2 /\ soup.rows[2][1] = [name |-> "dt", text |-> CaptionText]
    /\ soup.rows[2][2].name = "dd"
    /\ Len(soup.rows[3]) = 2 /\ soup.rows[3][1].name = "th"
    /\ ret = Str(<<"v", "3", "2">>)

\* The output keys that belong to the label with output key `key`.
C10_Keys(key) ==
    CASE key = "address" -> {"prefecture", "city", "district", "chome_banchi"}
      [] key = "facing" -> FacingKeys
      [] key = "features" ->
            {FEATURE_KEYS[k] : k \in 1..Len(FEATURE_KEYS)} \cup DefaultFeatureKeys
      [] key = "floor_no/floors" -> {"floor_no", "floors"}
      [] key = "deposit/security_deposit" ->
            {"months_security_deposit", "numeric_security_deposit"}
      [] key = "key_money/amortization" -> {"months_key", "numeric_key"}
      [] OTHER -> {key}

\* The loop body applied to record d for the labels of `order`, one after the
\* other.
RECURSIVE C10_Fold(_, _)
C10_Fold(d, order) ==
    IF order = <<>> THEN d ELSE C10_Fold(LoopBody(d, soup, Head(order)), Tail(order))

C10_Backward == [k \in 1..Len(UI_MAPPING) |-> Len(UI_MAPPING) + 1 - k]

\* C10: an iteration of the label loop changes only the keys of its own label,
\* and nothing when the value is null or empty; the key sets of the labels
\* are pairwise disjoint and hold no link, create_date, "address", "facing",
\* "features" or composite key; so the record after the loop is the same
\* whatever the order of the labels, and the keys of a label without a value
\* are null after the loop.
C10_LabelFrame ==
    [][(pc = "labels" /\ i <= Len(UI_MAPPING)) =>
        /\ LET own == C10_Keys(UI_MAPPING[i].key)
           IN  /\ (DOMAIN data') \ own = (DOMAIN data) \ own
               /\ \A k \in (DOMAIN data) \ own : data'[k] = data[k]
        /\ ~Truthy(get_value_by_label(soup, UI_MAPPING[i].label)) => data' = data
        /\ i = 1 => \A a, b \in 1..Len(UI_MAPPING) :
              /\ a # b => C10_Keys(UI_MAPPING[a].key) \cap C10_Keys(UI_MAPPING[b].key) = {}
              /\ C10_Keys(UI_MAPPING[a].key) \cap
                    ({"link", "create_date", "address", "facing", "features"}
                     \cup {UI_MAPPING[c].key : c \in {7, 13, 14}}) = {}
        /\ i = Len(UI_MAPPING) => C10_Fold(NewRecord, C10_Backward) = data'
        /\ i = Len(UI_MAPPING) =>
              \A a \in 1..Len(UI_MAPPING) :
                  ~Truthy(get_value_by_label(soup, UI_MAPPING[a].label)) =>
                      \A k \in C10_Keys(UI_MAPPING[a].key) : Get(data', k) = None]_vars

\* The loop is over for a document with a floor and a rent but no address.
C10_Witness ==
    /\ pc = "labels" /\ i > Len(UI_MAPPING)
    /\ Truthy(Get(data, "floors"))
    /\ Truthy(Get(data, "monthly_rent"))
    /\ Get(data, "prefecture") = None

====
